---- MODULE Spec2Model ----
(***************************************************************************)
(* Delivery_Quote_Backend/server.js: the lead-logging and checkout backend. *)
(*                                                                          *)
(* The file holds two revisions of the server.  Revision 1 (lines 1-178)    *)
(* serves POST /log-calculated-quote and POST /create-checkout-session and  *)
(* logs through logLeadDataToCSV; revision 2 (lines 180-304) serves only    *)
(* POST /create-checkout-session and logs inline with an unawaited          *)
(* fs.appendFile.  A run of the server is a run of one revision (rev).      *)
(*                                                                          *)
(* A handler runs synchronously up to its first await, so each action is    *)
(* one such synchronous segment: the arrival of a request up to the issue   *)
(* of fs.appendFile, the completion of the append together with the         *)
(* continuation that follows the await, the completion of the Stripe call.  *)
(***************************************************************************)
EXTENDS Integers, Sequences, FiniteSets, TLC

VARIABLES
    rev,        \* which revision of server.js is running: 1 or 2
    express,    \* the major version of express the server is built on: 4 or 5
    domainSet,  \* process.env.YOUR_WEBSITE_URL is set
    dirExists,  \* the leads directory exists
    fileExists, \* leads/leads.csv exists
    file,       \* the lines of leads/leads.csv, in order
    reqs,       \* the request of each connection slot
    enc         \* input and output of the encoder specifications

vars == <<rev, express, domainSet, dirExists, fileExists, file, reqs, enc>>

---------------------------------------------------------------------------
(* Bounds of the model *)

\* the sink file takes at most this many data rows
MaxRows == 2
\* a submitted body deviates from the well-formed one in at most this many fields
MaxDefects == 2
\* a free-text property of a submission to encode has at most this many characters
MaxText == 1
\* a submission to encode has at most this many stops
MaxStops == 2
\* a submission to encode has at most this many free-text properties that differ
\* from the plain one
MaxVaried == 1

Slots == {1, 2}

---------------------------------------------------------------------------
(* JavaScript values *)

\* a text property of the body: absent, the empty string, or a non-empty string
TextVals == {"undef", "empty", "ok"}
Truthy(t) == t = "ok"

\* calculatedQuote as submitted: absent, the text "abc", the text "Infinity",
\* or a number given in thousandths of a dollar
QuoteMillis == {490, 496, 500, 25000}
QuoteVals ==
    {[k |-> "undef", v |-> 0], [k |-> "nanText", v |-> 0], [k |-> "infText", v |-> 0]}
    \cup {[k |-> "number", v |-> m] : m \in QuoteMillis \cup {0}}

\* !leadData.calculatedQuote is false
QuoteTruthy(q) == q.k \in {"nanText", "infText"} \/ (q.k = "number" /\ q.v # 0)

\* parseFloat(calculatedQuote): a number in thousandths, NaN or Infinity
ParseFloat(q) ==
    CASE q.k = "number" -> [t |-> "num", v |-> q.v]
      [] q.k = "infText" -> [t |-> "inf", v |-> 0]
      [] OTHER -> [t |-> "nan", v |-> 0]

IsNaN(n) == n.t = "nan"

\* Math.round(x): the nearest integer, halves towards +Infinity
RoundDiv(a, b) == (2 * a + b) \div (2 * b)

\* Math.round(parseFloat(calculatedQuote) * 100), in cents
AmountInCents(q) ==
    LET n == ParseFloat(q)
    IN  IF n.t = "num" THEN [t |-> "num", v |-> RoundDiv(n.v, 10)] ELSE n

MinimumCharge == 50
\* amountInCents < 50
BelowMinimum(a) == a.t = "num" /\ a.v < MinimumCharge

---------------------------------------------------------------------------
(* Request bodies *)

ContactVals ==
    {[present |-> FALSE, name |-> "undef", email |-> "undef"]}
    \cup {[present |-> TRUE, name |-> n, email |-> e] : n \in TextVals, e \in TextVals}

\* stopsData: absent, or an array of len stops whose first stop has or lacks an address
StopsVals ==
    {[present |-> FALSE, len |-> 0, addr0 |-> "undef"],
     [present |-> TRUE, len |-> 0, addr0 |-> "undef"]}
    \cup {[present |-> TRUE, len |-> l, addr0 |-> a] : l \in {1, 2}, a \in {"undef", "ok"}}

PackagesVals ==
    {[present |-> FALSE, len |-> 0], [present |-> TRUE, len |-> 0], [present |-> TRUE, len |-> 1]}

ServiceVals ==
    {[present |-> FALSE, vehicleType |-> "undef"]}
    \cup {[present |-> TRUE, vehicleType |-> t] : t \in TextVals}

\* totalMiles: absent, a number, or a string
MilesVals == {"undef", "num", "str"}

WellFormed ==
    [calculatedQuote |-> [k |-> "number", v |-> 25000],
     contactDetails  |-> [present |-> TRUE, name |-> "ok", email |-> "ok"],
     stopsData       |-> [present |-> TRUE, len |-> 2, addr0 |-> "ok"],
     packagesData    |-> [present |-> TRUE, len |-> 1],
     serviceDetails  |-> [present |-> TRUE, vehicleType |-> "ok"],
     totalMiles      |-> "num"]

B2N(p) == IF p THEN 1 ELSE 0

Defects(b) ==
    B2N(b.calculatedQuote # WellFormed.calculatedQuote)
    + B2N(b.contactDetails # WellFormed.contactDetails)
    + B2N(b.stopsData # WellFormed.stopsData)
    + B2N(b.packagesData # WellFormed.packagesData)
    + B2N(b.serviceDetails # WellFormed.serviceDetails)
    + B2N(b.totalMiles # WellFormed.totalMiles)

AllBodies ==
    {b \in [calculatedQuote : QuoteVals, contactDetails : ContactVals,
            stopsData : StopsVals, packagesData : PackagesVals,
            serviceDetails : ServiceVals, totalMiles : MilesVals] :
        Defects(b) <= MaxDefects}

\* the bodies of the concurrent specification: submissions that pass both
\* validations, with the quotes and the fields the continuations read
PlainBodies ==
    {b \in {[WellFormed EXCEPT !.calculatedQuote.v = q, !.stopsData.addr0 = a,
                               !.totalMiles = m] :
                q \in {490, 25000}, a \in {"undef", "ok"}, m \in MilesVals} :
        Defects(b) <= 1}

---------------------------------------------------------------------------
(* Validation *)

\* the negation of the condition of line 106
LogValid(b) == b.contactDetails.present /\ QuoteTruthy(b.calculatedQuote)

\* the condition of lines 125 and 233 without its contactDetails.email disjunct
CheckoutValidNoEmail(b) ==
    ~ \/ ~QuoteTruthy(b.calculatedQuote)
      \/ IsNaN(ParseFloat(b.calculatedQuote))
      \/ ~b.contactDetails.present
      \/ ~Truthy(b.contactDetails.name)
      \/ ~b.stopsData.present
      \/ b.stopsData.len < 2
      \/ ~b.packagesData.present
      \/ b.packagesData.len < 1
      \/ ~b.serviceDetails.present
      \/ ~Truthy(b.serviceDetails.vehicleType)

\* the negation of the condition of lines 125 and 233
CheckoutValid(b) ==
    ~ \/ ~QuoteTruthy(b.calculatedQuote)
      \/ IsNaN(ParseFloat(b.calculatedQuote))
      \/ ~b.contactDetails.present
      \/ ~Truthy(b.contactDetails.email)
      \/ ~Truthy(b.contactDetails.name)
      \/ ~b.stopsData.present
      \/ b.stopsData.len < 2
      \/ ~b.packagesData.present
      \/ b.packagesData.len < 1
      \/ ~b.serviceDetails.present
      \/ ~Truthy(b.serviceDetails.vehicleType)

---------------------------------------------------------------------------
(* The sink file *)

csvHeader(r) ==
    IF r = 1
    THEN <<"Timestamp", "LogType", "Contact Name", "Contact Email", "Contact Phone",
           "Contact Company", "All Stops Details", "Package Details", "Vehicle Type",
           "Pickup Date", "Pickup Time", "Urgency", "Inside Delivery", "Hazardous",
           "Bio-Hazardous", "Extra Laborer", "Total Miles", "Calculated Quote">>
    ELSE <<"Timestamp", "Contact Name", "Contact Email", "Contact Phone",
           "Contact Company", "All Stops Details", "Package Details", "Vehicle Type",
           "Pickup Date", "Pickup Time", "Urgency", "Inside Delivery", "Hazardous",
           "Bio-Hazardous", "Extra Laborer", "Total Miles", "Calculated Quote">>

\* the fields of csvRow in the order they are joined, by the column each holds
csvRowFields(r) ==
    IF r = 1
    THEN <<"Timestamp", "LogType", "Contact Name", "Contact Email", "Contact Phone",
           "Contact Company", "All Stops Details", "Package Details", "Vehicle Type",
           "Pickup Date", "Pickup Time", "Urgency", "Inside Delivery", "Hazardous",
           "Bio-Hazardous", "Extra Laborer", "Total Miles", "Calculated Quote">>
    ELSE <<"Timestamp", "Contact Name", "Contact Email", "Contact Phone",
           "Contact Company", "All Stops Details", "Package Details", "Vehicle Type",
           "Pickup Date", "Pickup Time", "Urgency", "Inside Delivery", "Hazardous",
           "Bio-Hazardous", "Extra Laborer", "Total Miles", "Calculated Quote">>

\* a line of the file: the header or a row, written in the layout of revision
\* r, with the log type and the quote of a row and the slot of its request
HeaderLine(r) == [kind |-> "header", layout |-> r, logType |-> "", quote |-> "", slot |-> 0]

\* the columns a line holds, in order
Columns(line) ==
    IF line.kind = "header" THEN csvHeader(line.layout) ELSE csvRowFields(line.layout)

\* quoteFormatted: "$" and parseFloat(calculatedQuote).toFixed(2), by its kind
quoteFormatted(q) ==
    IF q.k = "undef" THEN "$"
    ELSE LET n == ParseFloat(q)
         IN  CASE n.t = "num" -> "$number"
               [] n.t = "inf" -> "$Infinity"
               [] OTHER -> "$NaN"

\* csvRow of the request of slot s
csvRow(r, s, logType, b) ==
    [kind |-> "row", layout |-> r, logType |-> logType,
     quote |-> quoteFormatted(b.calculatedQuote), slot |-> s]

NoRow == [kind |-> "none", layout |-> 0, logType |-> "", quote |-> "", slot |-> 0]

DataRows == Len(SelectSeq(file, LAMBDA l : l.kind = "row"))

---------------------------------------------------------------------------
(* Requests *)

NoAmount == [t |-> "nan", v |-> 0]

IdleReq ==
    [ep |-> "idle", body |-> WellFormed, pc |-> "idle", resp |-> "none",
     append |-> "none", row |-> NoRow, stripeCalled |-> FALSE, unit_amount |-> NoAmount,
     cancel_url |-> ""]

\* rows whose append has been issued and has not completed
InFlight == Cardinality({s \in Slots : reqs[s].append = "pending"})

\* a slot that holds no request takes a new one
Free(s) ==
    /\ reqs[s].pc = "idle"
    /\ DataRows + InFlight < MaxRows

Respond(r, resp) == [r EXCEPT !.pc = "done", !.resp = resp]

\* an exception that escapes the async handler: express 4 leaves the rejected
\* promise unhandled and the request without a response, express 5 passes it
\* to the default error handler, which answers 500
Thrown(r) == Respond(r, IF express = 4 THEN "none" ELSE "500framework")

---------------------------------------------------------------------------
(* The record encoder: strings are sequences of characters *)

\* a property of the body that is absent, or a string
Undef == [def |-> FALSE, s |-> <<>>]
Text(s) == [def |-> TRUE, s |-> s]

\* v || d for a string v: d when v is absent or the empty string
OrElse(v, d) == IF v.def /\ v.s # <<>> THEN v.s ELSE d

\* s.replace(/c/g, d)
ReplaceAll(s, c, d) == [i \in 1..Len(s) |-> IF s[i] = c THEN d ELSE s[i]]

\* s.replace(/"/g, '""')
RECURSIVE DoubleQuotes(_)
DoubleQuotes(s) ==
    IF s = <<>> THEN <<>>
    ELSE (IF Head(s) = "\"" THEN <<"\"", "\"">> ELSE <<Head(s)>>) \o DoubleQuotes(Tail(s))

\* formatCSVField without the doubling of the quotes of the field
formatCSVFieldRaw(v) == <<"\"">> \o OrElse(v, <<>>) \o <<"\"">>

\* formatCSVField of a string, or of a missing value
formatCSVField(v) == <<"\"">> \o DoubleQuotes(OrElse(v, <<>>)) \o <<"\"">>

\* parts.join(sep)
RECURSIVE Join(_, _)
Join(parts, sep) ==
    IF parts = <<>> THEN <<>>
    ELSE IF Len(parts) = 1 THEN parts[1]
    ELSE parts[1] \o sep \o Join(Tail(parts), sep)

Str_NA == <<"N", "/", "A">>
Str_driver == <<"d", "r", "i", "v", "e", "r">>
Str_customer == <<"c", "u", "s", "t", "o", "m", "e", "r">>
Str_driver_assist == <<"d", "r", "i", "v", "e", "r", "_", "a", "s", "s", "i", "s", "t">>
Str_other == <<"o", "t", "h", "e", "r">>
Str_Driver == <<"D", "r", "i", "v", "e", "r">>
Str_Customer == <<"C", "u", "s", "t", "o", "m", "e", "r">>
Str_DriverAssist == <<"D", "r", "i", "v", "e", "r", " ", "A", "s", "s", "i", "s", "t">>
Str_No == <<"N", "o">>
Str_YesFl == <<"Y", "e", "s", ",", " ", "F", "l", ":", " ">>
Str_Yes == <<"Y", "e", "s">>

\* the load/unload label of line 51
loadUnloadLabelOrNA(v) ==
    LET loadUnload == OrElse(v, Str_NA)
    IN  IF loadUnload = Str_driver THEN Str_Driver
        ELSE IF loadUnload = Str_customer THEN Str_Customer
        ELSE IF loadUnload = Str_driver_assist THEN Str_DriverAssist
        ELSE Str_NA

loadUnloadLabel(v) ==
    LET loadUnload == OrElse(v, Str_NA)
    IN  IF loadUnload = Str_driver THEN Str_Driver
        ELSE IF loadUnload = Str_customer THEN Str_Customer
        ELSE IF loadUnload = Str_driver_assist THEN Str_DriverAssist
        ELSE loadUnload

\* stairsInfoString of line 52; stairs is "true", "false" or "undef"
stairsInfoString(stop) ==
    IF stop.stairs = "true" THEN Str_YesFl \o OrElse(stop.floor, Str_NA) ELSE Str_No

\* the address of line 49
cleanAddress(v) == ReplaceAll(ReplaceAll(OrElse(v, Str_NA), "|", "/"), ";", ",")

\* one stop, as the callback of stopsData.map returns it
stopString(stop) ==
    cleanAddress(stop.address) \o <<"|">> \o loadUnloadLabel(stop.loadUnload)
        \o <<"|">> \o stairsInfoString(stop)

\* stopsData.map(...).join(';')
stopsBlob(stops) == Join([i \in 1..Len(stops) |-> stopString(stops[i])], <<";">>)

\* allStopsString of lines 46-55
allStopsString(stops) ==
    IF Len(stops) > 0 THEN formatCSVField(Text(stopsBlob(stops)))
    ELSE <<"\"", "N", "o", " ", "s", "t", "o", "p", " ", "d", "e", "t", "a", "i", "l", "s", " ", "p", "r", "o", "v", "i", "d", "e", "d", "\"">>

\* one package, as the callback of packagesData.map returns it (lines 60-61)
packageString(p) ==
    LET cleanDesc == ReplaceAll(ReplaceAll(OrElse(p.desc, Str_NA), "|", "/"), ";", ",")
    IN  <<"Q", "t", "y", ":">> \o OrElse(p.qty, Str_NA) \o <<",", " ", "D", "e", "s", "c", ":">> \o cleanDesc
        \o <<",", " ", "W", "t", ":">> \o OrElse(p.weight, Str_NA) \o <<"l", "b", "s", ",", " ", "D", "i", "m", ":">>
        \o OrElse(p.length, Str_NA) \o <<"x">> \o OrElse(p.width, Str_NA)
        \o <<"x">> \o OrElse(p.height, Str_NA) \o <<" ">> \o OrElse(p.unit, Str_NA)

packagesBlob(pkgs) == Join([i \in 1..Len(pkgs) |-> packageString(pkgs[i])], <<";", " ">>)

\* packagesStr of lines 57-63
packagesStr(pkgs) ==
    IF Len(pkgs) > 0 THEN formatCSVField(Text(packagesBlob(pkgs)))
    ELSE <<"\"", "N", "o", " ", "p", "a", "c", "k", "a", "g", "e", " ", "d", "e", "t", "a", "i", "l", "s", " ", "p", "r", "o", "v", "i", "d", "e", "d", "\"">>

Digit(d) == <<"0", "1", "2", "3", "4", "5", "6", "7", "8", "9">>[d + 1]

\* the decimal digits of a natural number
RECURSIVE Digits(_)
Digits(n) == IF n < 10 THEN <<Digit(n)>> ELSE Digits(n \div 10) \o <<Digit(n % 10)>>

\* parseFloat(totalMiles).toFixed(1) of a number given in hundredths of a mile
milesToFixed1(h) ==
    LET t == RoundDiv(h, 10) IN Digits(t \div 10) \o <<".">> \o <<Digit(t % 10)>>

\* totalMilesFormatted of line 73; totalMiles is absent or a number of hundredths
totalMilesFormatted(m) ==
    formatCSVField(IF m.def THEN Text(milesToFixed1(m.v)) ELSE Text(<<>>))

\* parseFloat(calculatedQuote).toFixed(2) of a quote given in thousandths of a dollar
quoteToFixed2(q) ==
    LET n == ParseFloat(q)
        c == RoundDiv(n.v, 10)
    IN  CASE n.t = "num" ->
               Digits(c \div 100) \o <<".">> \o <<Digit((c \div 10) % 10), Digit(c % 10)>>
          [] n.t = "inf" -> <<"I", "n", "f", "i", "n", "i", "t", "y">>
          [] OTHER -> <<"N", "a", "N">>

\* quoteFormatted of line 74, as text
quoteFormattedText(q) ==
    formatCSVField(Text(<<"$">> \o (IF q.k = "undef" THEN <<>> ELSE quoteToFixed2(q))))

\* a service flag of lines 69-72
yesNo(flag) == IF flag THEN <<"\"", "Y", "e", "s", "\"">> ELSE <<"\"", "N", "o", "\"">>

\* the 18 fields of csvRow (lines 76-83), each as it is written
csvRowParts(leadData, logType, timestamp) ==
    <<formatCSVField(Text(timestamp)), formatCSVField(Text(logType)),
      formatCSVField(leadData.contactDetails.name),
      formatCSVField(leadData.contactDetails.email),
      formatCSVField(leadData.contactDetails.phone),
      formatCSVField(leadData.contactDetails.company),
      allStopsString(leadData.stopsData), packagesStr(leadData.packagesData),
      formatCSVField(leadData.serviceDetails.vehicleType),
      formatCSVField(leadData.serviceDetails.pickupDate),
      formatCSVField(leadData.serviceDetails.pickupTime),
      formatCSVField(leadData.serviceDetails.urgency),
      yesNo(leadData.serviceDetails.insideDelivery),
      yesNo(leadData.serviceDetails.hazardous),
      yesNo(leadData.serviceDetails.bioHazardous),
      yesNo(leadData.serviceDetails.extraLaborer),
      totalMilesFormatted(leadData.totalMiles),
      quoteFormattedText(leadData.calculatedQuote)>>

\* csvRow: the fields joined with commas, and a newline
csvRowText(leadData, logType, timestamp) ==
    Join(csvRowParts(leadData, logType, timestamp), <<",">>) \o <<"\n">>

Str_CalculatedQuote == <<"C", "a", "l", "c", "u", "l", "a", "t", "e", "d", "Q", "u", "o", "t", "e">>
Str_CheckoutAttempt == <<"C", "h", "e", "c", "k", "o", "u", "t", "A", "t", "t", "e", "m", "p", "t">>
\* new Date().toISOString(): digits and the characters - : . T Z
Str_Timestamp == <<"1", "T", "2", "Z">>

---------------------------------------------------------------------------
(* Startup *)

\* ensureLeadsFileExists() at startup, leads/ and leads.csv not being there yet:
\* both are created, or mkdirSync throws, or writeFileSync throws; the catch
\* logs the error and the server starts all the same
EnsureOutcomes(r) ==
    {[dir |-> TRUE, exists |-> TRUE, lines |-> <<HeaderLine(r)>>],
     [dir |-> FALSE, exists |-> FALSE, lines |-> <<>>],
     [dir |-> TRUE, exists |-> FALSE, lines |-> <<>>]}

NoEnc == [spec |-> "server"]

\* revision 2 registers app.options('*', ...) (line 206), a path express 5
\* refuses at startup: revision 2 runs on express 4
ExpressVersions(r) == IF r = 1 THEN {4, 5} ELSE {4}

Init ==
    /\ rev \in {1, 2}
    /\ express \in ExpressVersions(rev)
    /\ domainSet \in BOOLEAN
    /\ \E o \in EnsureOutcomes(rev) :
          /\ dirExists = o.dir
          /\ fileExists = o.exists
          /\ file = o.lines
    /\ reqs = [s \in Slots |-> IdleReq]
    /\ enc = NoEnc

---------------------------------------------------------------------------
(* fs.appendFile *)

\* the append fails when the directory is missing, and may fail otherwise
AppendOutcomes == IF dirExists THEN {"ok", "fail"} ELSE {"fail"}

\* fs.appendFile(leadsFilePath, csvRow): the row is added at the end of the
\* file, which is created when it is not there
appendFile(s, o) ==
    /\ file' = IF o = "ok" THEN Append(file, reqs[s].row) ELSE file
    /\ fileExists' = (fileExists \/ o = "ok")

---------------------------------------------------------------------------
(* POST /log-calculated-quote (revision 1) *)

NewReq(ep, b) == [IdleReq EXCEPT !.ep = ep, !.body = b]

\* the request arrives: validation, then logLeadDataToCSV up to fs.appendFile
LogArrive(s, b) ==
    /\ rev = 1
    /\ Free(s)
    /\ reqs' = [reqs EXCEPT ![s] =
          IF ~LogValid(b)
          THEN Respond(NewReq("log", b), "400validation")
          ELSE [NewReq("log", b) EXCEPT
                   !.pc = "awaitAppend", !.append = "pending",
                   !.row = csvRow(1, s, "CalculatedQuote", b)]]
    /\ UNCHANGED <<rev, express, domainSet, dirExists, fileExists, file, enc>>

\* the response of the log-only handler once the promise settles
LogResponse(o) == IF o = "ok" THEN "200logged" ELSE "500log"

\* the append completes: the promise resolves or rejects and the handler answers
LogAppendDone(s, o) ==
    /\ reqs[s].ep = "log"
    /\ reqs[s].pc = "awaitAppend"
    /\ o \in AppendOutcomes
    /\ appendFile(s, o)
    /\ reqs' = [reqs EXCEPT ![s] = Respond([@ EXCEPT !.append = o], LogResponse(o))]
    /\ UNCHANGED <<rev, express, domainSet, dirExists, enc>>

---------------------------------------------------------------------------
(* POST /create-checkout-session *)

\* stripe.checkout.sessions.create is called with unit_amount a
CallStripe(r, a) ==
    [r EXCEPT !.pc = "awaitStripe", !.stripeCalled = TRUE, !.unit_amount = a,
              !.cancel_url = IF domainSet THEN "domain" ELSE "default"]

\* revision 1 from the order summary on, were a failed append answered as on
\* the log-only endpoint
Checkout1ContinueSurfacing(r) ==
    LET b == r.body
        amountInCents == AmountInCents(b.calculatedQuote)
    IN  IF r.append = "fail"
        THEN Respond(r, "500log")
        ELSE IF b.stopsData.len > 0 /\ b.stopsData.addr0 = "undef"
        THEN Thrown(r)
        ELSE IF BelowMinimum(amountInCents)
        THEN Respond(r, "400belowMin")
        ELSE CallStripe(r, amountInCents)

\* revision 1, from the order summary on (lines 140-162)
Checkout1Continue(r) ==
    LET b == r.body
        amountInCents == AmountInCents(b.calculatedQuote)
    IN  IF b.stopsData.len > 0 /\ b.stopsData.addr0 = "undef"
        THEN Thrown(r)            \* stopsData[0]?.address.substring: TypeError
        ELSE IF BelowMinimum(amountInCents)
        THEN Respond(r, "400belowMin")
        ELSE CallStripe(r, amountInCents)

\* revision 1: the request arrives: validation, then logLeadDataToCSV up to fs.appendFile
Checkout1Arrive(s, b) ==
    /\ rev = 1
    /\ Free(s)
    /\ reqs' = [reqs EXCEPT ![s] =
          IF ~CheckoutValid(b)
          THEN Respond(NewReq("checkout", b), "400validation")
          ELSE [NewReq("checkout", b) EXCEPT
                   !.pc = "awaitAppend", !.append = "pending",
                   !.row = csvRow(1, s, "CheckoutAttempt", b)]]
    /\ UNCHANGED <<rev, express, domainSet, dirExists, fileExists, file, enc>>

\* revision 1: the append completes; a rejection is caught and logged, and the
\* handler goes on to the Stripe session
Checkout1AppendDone(s, o) ==
    /\ reqs[s].ep = "checkout"
    /\ reqs[s].pc = "awaitAppend"
    /\ o \in AppendOutcomes
    /\ appendFile(s, o)
    /\ reqs' = [reqs EXCEPT ![s] = Checkout1Continue([@ EXCEPT !.append = o])]
    /\ UNCHANGED <<rev, express, domainSet, dirExists, enc>>

\* revision 2, from the order summary on (lines 271-288)
Checkout2Continue(r) ==
    LET b == r.body
        amountInCents == AmountInCents(b.calculatedQuote)
    IN  IF b.totalMiles = "str"
        THEN Thrown(r)            \* totalMiles?.toFixed: TypeError on a string
        ELSE IF BelowMinimum(amountInCents)
        THEN Respond(r, "400belowMin")
        ELSE IF ~domainSet
        THEN Respond(r, "500config")
        ELSE CallStripe(r, amountInCents)

\* revision 2: the inline logging of lines 239-268: the row is formatted and
\* fs.appendFile is issued and not awaited; totalMiles.toFixed throwing on a
\* string is caught and nothing is appended
Checkout2Log(r, s) ==
    IF r.body.totalMiles = "str"
    THEN r
    ELSE [r EXCEPT !.append = "pending", !.row = csvRow(2, s, "", r.body)]

\* revision 2: the request arrives and the handler runs to its first await
Checkout2Arrive(s, b) ==
    /\ rev = 2
    /\ Free(s)
    /\ reqs' = [reqs EXCEPT ![s] =
          IF ~CheckoutValid(b)
          THEN Respond(NewReq("checkout", b), "400validation")
          ELSE Checkout2Continue(Checkout2Log(NewReq("checkout", b), s))]
    /\ UNCHANGED <<rev, express, domainSet, dirExists, fileExists, file, enc>>

\* revision 2: the unawaited append completes; its callback only logs
Checkout2AppendDone(s, o) ==
    /\ rev = 2
    /\ reqs[s].append = "pending"
    /\ o \in AppendOutcomes
    /\ appendFile(s, o)
    /\ reqs' = [reqs EXCEPT ![s].append = o]
    /\ UNCHANGED <<rev, express, domainSet, dirExists, enc>>

\* the response once stripe.checkout.sessions.create settles
StripeResponse(o) == IF o = "ok" THEN "200url" ELSE "500provider"

\* the Stripe call returns a session or throws
StripeDone(s, o) ==
    /\ reqs[s].pc = "awaitStripe"
    /\ o \in {"ok", "fail"}
    /\ reqs' = [reqs EXCEPT ![s] = Respond(@, StripeResponse(o))]
    /\ UNCHANGED <<rev, express, domainSet, dirExists, fileExists, file, enc>>

\* the connection of a request whose handler is over is closed (the client has
\* its response, or gives up waiting for one), once its append has completed
Close(s) ==
    /\ reqs[s].pc = "done"
    /\ reqs[s].append # "pending"
    /\ reqs' = [reqs EXCEPT ![s] = IdleReq]
    /\ UNCHANGED <<rev, express, domainSet, dirExists, fileExists, file, enc>>

---------------------------------------------------------------------------
(* The server *)

Serve(S, B) ==
    \E s \in S :
        \/ Free(s) /\ \E b \in B : LogArrive(s, b)
        \/ \E o \in {"ok", "fail"} : LogAppendDone(s, o)
        \/ Free(s) /\ \E b \in B : Checkout1Arrive(s, b)
        \/ \E o \in {"ok", "fail"} : Checkout1AppendDone(s, o)
        \/ Free(s) /\ \E b \in B : Checkout2Arrive(s, b)
        \/ \E o \in {"ok", "fail"} : Checkout2AppendDone(s, o)
        \/ \E o \in {"ok", "fail"} : StripeDone(s, o)
        \/ Close(s)

\* concurrent requests that pass validation
Next == Serve(Slots, PlainBodies)
Spec == Init /\ [][Next]_vars

\* one request at a time, over every body
NextInputs == Serve({1}, AllBodies)
SpecInputs == Init /\ [][NextInputs]_vars

---------------------------------------------------------------------------
(* Properties of the request handlers *)

Missing(t) == t = "undef"
MissingOrEmpty(t) == t \in {"undef", "empty"}

\* calculatedQuote is missing or does not parse to a finite number
QuoteNotFinite(q) == q.k \in {"undef", "nanText", "infText"}

\* the submission fails one of the five validation rules
FailsARule(b) ==
    \/ QuoteNotFinite(b.calculatedQuote)
    \/ ~b.contactDetails.present
    \/ MissingOrEmpty(b.contactDetails.name)
    \/ MissingOrEmpty(b.contactDetails.email)
    \/ ~b.stopsData.present \/ b.stopsData.len < 2
    \/ ~b.packagesData.present \/ b.packagesData.len < 1
    \/ ~b.serviceDetails.present
    \/ MissingOrEmpty(b.serviceDetails.vehicleType)

Rejected(r) == r.resp = "400validation" /\ r.append = "none" /\ ~r.stripeCalled

\* C1: a checkout submission that fails any of the five validation rules is
\* answered 400 with a validation error, and the request neither appends to
\* the sink nor calls the payment provider.
C1_InvalidCheckoutRejected ==
    \A s \in Slots :
        reqs[s].ep = "checkout" /\ FailsARule(reqs[s].body) => Rejected(reqs[s])

\* C2: a submission without contactDetails.email (contactDetails absent, or
\* present with no email) is rejected with 400 and without a sink write by the
\* log-only endpoint and by the checkout endpoint alike.
C2_MissingEmailRejected ==
    \A s \in Slots :
        reqs[s].ep \in {"log", "checkout"} /\ Missing(reqs[s].body.contactDetails.email)
            => Rejected(reqs[s])

\* C2 as amended: without contactDetails.email the checkout endpoint rejects
\* with 400 and no sink write; the log-only endpoint does so when
\* contactDetails is absent or calculatedQuote is missing or zero, and
\* otherwise issues the append and answers 200, or 500 when the append fails.
C2_MissingEmail ==
    \A s \in Slots :
        LET r == reqs[s]
            q == r.body.calculatedQuote
        IN  r.ep \in {"log", "checkout"} /\ Missing(r.body.contactDetails.email) =>
                IF \/ r.ep = "checkout"
                   \/ ~r.body.contactDetails.present
                   \/ q.k = "undef"
                   \/ (q.k = "number" /\ q.v = 0)
                THEN Rejected(r)
                ELSE /\ r.append # "none"
                     /\ r.pc = "done" => \/ r.resp = "200logged" /\ r.append = "ok"
                                         \/ r.resp = "500log" /\ r.append = "fail"

\* a log-only request with contactDetails present but no email was logged and answered 200
C2_Witness ==
    \E s \in Slots :
        /\ reqs[s].ep = "log"
        /\ reqs[s].body.contactDetails.present
        /\ Missing(reqs[s].body.contactDetails.email)
        /\ reqs[s].resp = "200logged"
        /\ \E i \in 1..Len(file) : file[i].kind = "row" /\ file[i].slot = s

\* C3: on the log-only endpoint a submission whose calculatedQuote is absent or
\* does not parse to a finite number is answered 400 and writes no row, so no
\* row of the file carries a non-numeric quote.
C3_LogOnlyNumericQuote ==
    /\ \A s \in Slots :
          reqs[s].ep = "log" /\ QuoteNotFinite(reqs[s].body.calculatedQuote)
              => Rejected(reqs[s])
    /\ \A i \in 1..Len(file) :
          file[i].kind = "row" /\ file[i].logType = "CalculatedQuote"
              => file[i].quote = "$number"

\* round(calculatedQuote * 100) of a numeric quote given in thousandths
ExpectedCents(q) == (q.v + 5) \div 10

\* C4: a checkout submission that passes validation is answered 400
\* below-minimum without a provider call when round(calculatedQuote * 100) is
\* under 50, and otherwise the provider is called with exactly that unit_amount.
C4_AmountAndMinimum ==
    \A s \in Slots :
        LET r == reqs[s]
            q == r.body.calculatedQuote
        IN  r.ep = "checkout" /\ r.pc = "done" /\ r.resp # "400validation" /\ q.k = "number" =>
                IF ExpectedCents(q) < 50
                THEN r.resp = "400belowMin" /\ ~r.stripeCalled
                ELSE r.stripeCalled /\ r.unit_amount = [t |-> "num", v |-> ExpectedCents(q)]

\* C10: every checkout request ends with one of the handler's responses, a
\* submission whose first stop has no address or whose totalMiles is not a
\* number included.
C10_CheckoutAnswered ==
    \A s \in Slots :
        reqs[s].ep = "checkout" /\ reqs[s].pc = "done" =>
            reqs[s].resp \in {"400validation", "400belowMin", "200url", "500provider", "500config"}

\* the handler of r has gone past its append
PastAppend(r) == r.pc \in {"awaitStripe", "done"} /\ r.append \in {"ok", "fail"}

\* C5: a failed append is answered 500 with status "error" on the log-only
\* endpoint, never 200; on the checkout endpoint it is never answered by the
\* logging error and does not prevent the provider call: a checkout request
\* whose append failed calls the provider, with the same amount, exactly when
\* the same submission whose append succeeded does, and their responses
\* differ only by the outcome of the provider call.
C5_SinkFailureSurfacedOnLogOnly ==
    /\ \A s \in Slots :
          /\ reqs[s].ep = "log" /\ reqs[s].append = "fail"
                => reqs[s].pc = "done" /\ reqs[s].resp = "500log"
          /\ reqs[s].ep = "checkout" => reqs[s].resp # "500log"
    /\ \A s1, s2 \in Slots :
          LET r1 == reqs[s1]
              r2 == reqs[s2]
          IN  /\ r1.ep = "checkout" /\ r2.ep = "checkout"
              /\ r1.body = r2.body
              /\ r1.append = "fail" /\ r2.append = "ok"
              /\ PastAppend(r1) /\ PastAppend(r2)
              => /\ r1.stripeCalled = r2.stripeCalled
                 /\ r1.unit_amount = r2.unit_amount
                 /\ r1.pc = "done" /\ r2.pc = "done" /\ r1.resp # r2.resp
                       => {r1.resp, r2.resp} = {"200url", "500provider"}

\* two checkout requests of the same submission, the append of one failed and
\* of the other succeeded, both answered 200 with the session url
C5_Witness ==
    \E s1, s2 \in Slots :
        /\ reqs[s1].ep = "checkout" /\ reqs[s2].ep = "checkout"
        /\ reqs[s1].body = reqs[s2].body
        /\ reqs[s1].append = "fail" /\ reqs[s2].append = "ok"
        /\ reqs[s1].resp = "200url" /\ reqs[s2].resp = "200url"

IsPrefix(f, g) == Len(f) <= Len(g) /\ SubSeq(g, 1, Len(f)) = f

\* C6: the sink file of the revision with both endpoints starts with the
\* header row, every later line is one complete row of the 18 fields in header
\* order, and a step only ever extends the file.
C6_SinkAppendOnly ==
    rev = 1 =>
        /\ Len(file) > 0 => file[1] = HeaderLine(1)
        /\ \A i \in 2..Len(file) :
              /\ file[i].kind = "row"
              /\ Columns(file[i]) = csvHeader(1)
              /\ Len(Columns(file[i])) = 18

\* the part of C6 that does hold: no step rewrites or deletes a line of the file
SinkOnlyExtended == [][IsPrefix(file, file')]_vars

---------------------------------------------------------------------------
(* The encoder on its own: the serialization of the stops *)

\* the strings of at most n characters of the set C
RECURSIVE Strings(_, _)
Strings(C, n) ==
    IF n = 0 THEN {<<>>}
    ELSE LET S == Strings(C, n - 1) IN S \cup {Append(t, c) : t \in S, c \in C}

StopTexts == Strings({"a", "|", ";"}, MaxText)
OptionalTexts(T) == {Undef} \cup {Text(t) : t \in T}

\* the stops of a submission: any text in the three text properties
StopVals ==
    [address : OptionalTexts(StopTexts),
     loadUnload : OptionalTexts(StopTexts \cup {Str_driver, Str_customer, Str_driver_assist, Str_other}),
     stairs : {"undef", "false", "true"},
     floor : OptionalTexts(StopTexts)]

PlainStops ==
    {[address |-> Text(<<"a">>), loadUnload |-> Text(Str_driver), stairs |-> "false", floor |-> Undef],
     [address |-> Text(<<"b">>), loadUnload |-> Text(Str_customer), stairs |-> "true", floor |-> Text(<<"2">>)]}

\* a list of stops: r at position k, and the stops of f elsewhere
StopList(r, k, f) == [i \in 1..Len(f) |-> IF i = k THEN r ELSE f[i]]

Idle == [s \in Slots |-> IdleReq]

InitStops ==
    /\ rev = 1 /\ express = 4 /\ domainSet = TRUE
    /\ dirExists = TRUE /\ fileExists = TRUE /\ file = <<HeaderLine(1)>>
    /\ reqs = Idle
    \* 1..MaxStops stops, one of them any stop and the others plain
    /\ \E n \in 1..MaxStops :
          \E r \in StopVals, k \in 1..n, f \in [1..n -> PlainStops] :
              enc = [spec |-> "stops", phase |-> "input", stops |-> StopList(r, k, f),
                     blob |-> <<>>]

\* logLeadDataToCSV serializes the stops of the submission
SerializeStops ==
    /\ enc.phase = "input"
    /\ enc' = [enc EXCEPT !.phase = "done", !.blob = stopsBlob(enc.stops)]
    /\ UNCHANGED <<rev, express, domainSet, dirExists, fileExists, file, reqs>>

NextStops == SerializeStops
SpecStops == InitStops /\ [][NextStops]_vars

\* s.split(c): the pieces of s between the occurrences of c
RECURSIVE Split(_, _)
Split(s, c) ==
    IF \A i \in 1..Len(s) : s[i] # c THEN <<s>>
    ELSE LET k == CHOOSE i \in 1..Len(s) : s[i] = c /\ \A j \in 1..(i - 1) : s[j] # c
         IN  <<SubSeq(s, 1, k - 1)>> \o Split(SubSeq(s, k + 1, Len(s)), c)

\* a blob of n stops splits on ; into n segments of 3 fields each
WellSplit(blob, n) ==
    LET segs == Split(blob, ";")
    IN  /\ Len(segs) = n
        /\ \A i \in 1..Len(segs) : Len(Split(segs[i], "|")) = 3

\* C7: whatever text the fields of the N >= 1 stops hold, the serialized blob
\* splits on ; into exactly N segments and each segment on | into exactly 3 fields.
C7_StopsNeverFracture ==
    enc.phase = "done" => WellSplit(enc.blob, Len(enc.stops))

HasDelimiter(v) == v.def /\ \E i \in 1..Len(v.s) : v.s[i] \in {"|", ";"}

\* what does hold of the blob: delimiters in the addresses alone never fracture it
AddressesNeverFracture ==
    /\ enc.phase = "done"
    /\ \A i \in 1..Len(enc.stops) :
          /\ ~HasDelimiter(enc.stops[i].loadUnload)
          /\ enc.stops[i].stairs = "true" => ~HasDelimiter(enc.stops[i].floor)
    => WellSplit(enc.blob, Len(enc.stops))

\* the address as written: | and ; replaced, N/A for a missing or empty one
WrittenAddress(v) ==
    IF ~v.def \/ v.s = <<>> THEN Str_NA
    ELSE [i \in 1..Len(v.s) |->
            CASE v.s[i] = "|" -> "/" [] v.s[i] = ";" -> "," [] OTHER -> v.s[i]]

FloorOrNA(v) == IF ~v.def \/ v.s = <<>> THEN Str_NA ELSE v.s

\* the stop as C9 describes it
ClaimedStop(stop) ==
    WrittenAddress(stop.address) \o <<"|">>
    \o (CASE stop.loadUnload = Text(Str_driver) -> Str_Driver
          [] stop.loadUnload = Text(Str_customer) -> Str_Customer
          [] stop.loadUnload = Text(Str_driver_assist) -> Str_DriverAssist
          [] OTHER -> Str_NA)
    \o <<"|">>
    \o (IF stop.stairs = "false" THEN Str_No ELSE Str_YesFl \o FloorOrNA(stop.floor))

\* C9: each stop is written address|loadUnloadLabel|stairsLabel, the label
\* being Driver, Customer, Driver Assist, and N/A for every other value, the
\* stairs label No when stairs is false and "Yes, Fl: <floor or N/A>"
\* otherwise; the stops are joined with ; in submission order.
C9_StopFormat ==
    enc.phase = "done" =>
        enc.blob = Join([i \in 1..Len(enc.stops) |-> ClaimedStop(enc.stops[i])], <<";">>)

\* the stop as C9 is amended
AmendedStop(stop) ==
    WrittenAddress(stop.address) \o <<"|">>
    \o (CASE stop.loadUnload = Text(Str_driver) -> Str_Driver
          [] stop.loadUnload = Text(Str_customer) -> Str_Customer
          [] stop.loadUnload = Text(Str_driver_assist) -> Str_DriverAssist
          [] ~stop.loadUnload.def \/ stop.loadUnload.s = <<>> -> Str_NA
          [] OTHER -> stop.loadUnload.s)
    \o <<"|">>
    \o (IF stop.stairs = "true" THEN Str_YesFl \o FloorOrNA(stop.floor) ELSE Str_No)

\* C9 as amended: the label is N/A for a missing or empty loadUnload only, and
\* every other value that is not driver, customer or driver_assist is written
\* as it is ("other" stays "other"); the stairs label is "Yes, Fl: <floor or
\* N/A>" when stairs is true and No otherwise, a missing stairs included.
C9_StopFormatAmended ==
    enc.phase = "done" =>
        enc.blob = Join([i \in 1..Len(enc.stops) |-> AmendedStop(enc.stops[i])], <<";">>)

\* two stops serialized, the first with loadUnload "other" and stairs missing
C9_Witness ==
    /\ enc.phase = "done"
    /\ Len(enc.stops) = 2
    /\ enc.stops[1].loadUnload = Text(Str_other)
    /\ enc.stops[1].stairs = "undef"
    /\ enc.blob = <<"a", "|">> \o Str_other \o <<"|">> \o Str_No \o <<";", "a", "|">>
                    \o Str_Driver \o <<"|">> \o Str_No

---------------------------------------------------------------------------
(* The encoder on its own: the CSV row *)

\* free text with the characters of the CSV format itself
CsvTexts == Strings({"a", "\"", ","}, MaxText)

\* the free-text properties of a submission
TextKeys ==
    {"name", "email", "phone", "company", "vehicleType", "pickupDate", "pickupTime",
     "urgency", "address", "desc"}

PlainText == Text(<<"a">>)

\* the values of the free-text properties: those of f on its keys, plain elsewhere
TextChoice(f) == [k \in TextKeys |-> IF k \in DOMAIN f THEN f[k] ELSE PlainText]

\* the submission whose free-text properties are t
LeadDataOf(t, flag, miles, quote) ==
    [contactDetails |-> [name |-> t["name"], email |-> t["email"], phone |-> t["phone"],
                         company |-> t["company"]],
     stopsData |-> <<[address |-> t["address"], loadUnload |-> Undef, stairs |-> "false",
                      floor |-> Undef],
                     [address |-> Text(<<"b">>), loadUnload |-> Text(Str_driver),
                      stairs |-> "true", floor |-> Text(<<"2">>)]>>,
     packagesData |-> <<[qty |-> Text(<<"1">>), desc |-> t["desc"], weight |-> Text(<<"9">>),
                         length |-> Text(<<"1">>), width |-> Undef, height |-> Text(<<"1">>),
                         unit |-> Text(<<"f", "t">>)]>>,
     serviceDetails |-> [vehicleType |-> t["vehicleType"], pickupDate |-> t["pickupDate"],
                         pickupTime |-> t["pickupTime"], urgency |-> t["urgency"],
                         insideDelivery |-> flag, hazardous |-> ~flag,
                         bioHazardous |-> flag, extraLaborer |-> FALSE],
     totalMiles |-> miles,
     calculatedQuote |-> quote]

\* the service flags, totalMiles (in hundredths), calculatedQuote and the log type
OtherChoices ==
    {[flag |-> TRUE, miles |-> [def |-> TRUE, v |-> 1234],
      quote |-> [k |-> "number", v |-> 25000], logType |-> Str_CalculatedQuote],
     [flag |-> FALSE, miles |-> [def |-> FALSE, v |-> 0],
      quote |-> [k |-> "number", v |-> 496], logType |-> Str_CheckoutAttempt]}

InitCsv ==
    /\ rev = 1 /\ express = 4 /\ domainSet = TRUE
    /\ dirExists = TRUE /\ fileExists = TRUE /\ file = <<HeaderLine(1)>>
    /\ reqs = Idle
    \* at most MaxVaried of the free-text properties are not the plain text
    /\ \E K \in {K \in SUBSET TextKeys : Cardinality(K) <= MaxVaried} :
          \E f \in [K -> OptionalTexts(CsvTexts)], o \in OtherChoices :
              enc = [spec |-> "csv", phase |-> "input",
                     leadData |-> LeadDataOf(TextChoice(f), o.flag, o.miles, o.quote),
                     logType |-> o.logType, row |-> <<>>]

\* logLeadDataToCSV formats the row of the submission
FormatRow ==
    /\ enc.phase = "input"
    /\ enc' = [enc EXCEPT !.phase = "done",
                          !.row = csvRowText(enc.leadData, enc.logType, Str_Timestamp)]
    /\ UNCHANGED <<rev, express, domainSet, dirExists, fileExists, file, reqs>>

NextCsv == FormatRow
SpecCsv == InitCsv /\ [][NextCsv]_vars

\* the number of consecutive quote characters that end at position j of r, from lo on
RECURSIVE QuoteRun(_, _, _)
QuoteRun(r, lo, j) ==
    IF j < lo \/ r[j] # "\"" THEN 0 ELSE 1 + QuoteRun(r, lo, j - 1)

\* the content of a quoted field with each doubled quote read as one
RECURSIVE Unescape(_)
Unescape(c) ==
    IF c = <<>> THEN <<>>
    ELSE IF c[1] = "\"" THEN <<"\"">> \o Unescape(SubSeq(c, 3, Len(c)))
    ELSE <<c[1]>> \o Unescape(Tail(c))

\* a reader of quote-delimited, comma-separated fields with doubled quotes: a
\* field opens with a quote at position i and closes with the first quote that
\* is not one of a doubled pair; a comma or the final newline follows
RECURSIVE DecodeFrom(_, _, _)
DecodeFrom(r, i, acc) ==
    LET closers == {j \in (i + 1)..Len(r) :
                        /\ r[j] = "\""
                        /\ (j = Len(r) \/ r[j + 1] # "\"")
                        /\ QuoteRun(r, i + 1, j) % 2 = 1}
        j == CHOOSE k \in closers : \A l \in closers : k <= l
        fields == Append(acc, Unescape(SubSeq(r, i + 1, j - 1)))
    IN  IF i > Len(r) \/ r[i] # "\"" \/ closers = {} \/ j = Len(r)
        THEN [ok |-> FALSE, fields |-> acc]
        ELSE IF r[j + 1] = "," THEN DecodeFrom(r, j + 2, fields)
        ELSE [ok |-> r[j + 1] = "\n" /\ j + 1 = Len(r), fields |-> fields]

DecodeRow(r) == DecodeFrom(r, 1, <<>>)

\* the fields written again: each between quotes with its quotes doubled
ReEncode(fields) ==
    Join([i \in 1..Len(fields) |-> formatCSVField(Text(fields[i]))], <<",">>) \o <<"\n">>

\* the value of a property as a string: the empty string for a missing one
Value(v) == IF v.def THEN v.s ELSE <<>>
YesOrNo(flag) == IF flag THEN Str_Yes ELSE Str_No

\* the 18 field values of the row of a submission, before they are quoted
FieldValues(d, logType) ==
    <<Str_Timestamp, logType,
      Value(d.contactDetails.name), Value(d.contactDetails.email),
      Value(d.contactDetails.phone), Value(d.contactDetails.company),
      stopsBlob(d.stopsData), packagesBlob(d.packagesData),
      Value(d.serviceDetails.vehicleType), Value(d.serviceDetails.pickupDate),
      Value(d.serviceDetails.pickupTime), Value(d.serviceDetails.urgency),
      YesOrNo(d.serviceDetails.insideDelivery), YesOrNo(d.serviceDetails.hazardous),
      YesOrNo(d.serviceDetails.bioHazardous), YesOrNo(d.serviceDetails.extraLaborer),
      IF d.totalMiles.def THEN milesToFixed1(d.totalMiles.v) ELSE <<>>,
      <<"$">> \o quoteToFixed2(d.calculatedQuote)>>

\* C8: the row written for a submission decodes, as quote-delimited
\* comma-separated fields with doubled quotes, to the 18 original field
\* values, embedded quote characters included, and the decoded fields encoded
\* again are the same row.
C8_RowRoundTrip ==
    enc.phase = "done" =>
        LET d == DecodeRow(enc.row)
        IN  /\ d.ok
            /\ Len(d.fields) = 18
            /\ d.fields = FieldValues(enc.leadData, enc.logType)
            /\ ReEncode(d.fields) = enc.row

\* a row written for a submission whose name is a quote character
C8_Witness ==
    /\ enc.phase = "done"
    /\ enc.leadData.contactDetails.name = Text(<<"\"">>)
    /\ DecodeRow(enc.row).ok
    /\ DecodeRow(enc.row).fields[3] = <<"\"">>

====
